---- MODULE Spec2Model ----
(***************************************************************************)
(* Resumable-upload middleware (src/main.go).  The upload store is the     *)
(* directory TmpDir: one file per upload id holding the bytes, and one     *)
(* sidecar file id+".incomplete" that exists while the upload is           *)
(* incomplete.  Each HTTP request is served by its own handler; a handler  *)
(* is modelled as the sequence of its file-system calls, one atomic step   *)
(* per call, with the local computation that follows the call attached to  *)
(* the step.  Request headers are part of the request from its arrival;    *)
(* the body is a stream, fixed when io.Copy starts to read it.  The 104    *)
(* interim response and the CORS headers touch no stored state and are     *)
(* left out.                                                               *)
(***************************************************************************)
EXTENDS Integers, Sequences, FiniteSets, TLC

\* ---- bounds -------------------------------------------------------------
MaxBody == 2        \* longest request body
MaxLen == 3         \* longest upload file

Slots == {1, 2}                  \* request handlers running side by side
Ids == {"u1", "u2"}              \* values uuid.NewString can return / URL ids
Bytes == {"a", "b"}              \* payload bytes
\* request bodies: up to MaxBody copies of one byte
Bodies == {[i \in 1..k |-> b] : k \in 0..MaxBody, b \in Bytes}

\* ---- program constants --------------------------------------------------
IncompleteExt == ".incomplete"

StatusOK == 200
StatusCreated == 201
StatusNoContent == 204
StatusBadRequest == 400
StatusNotFound == 404
StatusConflict == 409
StatusInternalServerError == 500

\* ---- strconv ------------------------------------------------------------
Digits == <<"0", "1", "2", "3", "4", "5", "6", "7", "8", "9">>

DigitVal(c) == (CHOOSE i \in 1..10 : Digits[i] = c) - 1

IsDigit(c) == \E i \in 1..10 : Digits[i] = c

RECURSIVE FormatNat(_)
FormatNat(n) == IF n < 10 THEN <<Digits[n + 1]>>
                ELSE FormatNat(n \div 10) \o <<Digits[(n % 10) + 1]>>

\* strconv.FormatInt(offset, 10): the decimal text, as a sequence of characters
FormatInt(n) == IF n < 0 THEN <<"-">> \o FormatNat(0 - n) ELSE FormatNat(n)

RECURSIVE ParseNat(_, _)
ParseNat(s, acc) == IF s = <<>> THEN acc
                    ELSE ParseNat(Tail(s), acc * 10 + DigitVal(Head(s)))

\* strconv.Atoi: optional sign, then one or more decimal digits
Atoi(s) ==
    LET signed == s /= <<>> /\ Head(s) \in {"+", "-"}
        ds == IF signed THEN Tail(s) ELSE s
    IN  IF ds = <<>> \/ \E i \in 1..Len(ds) : ~IsDigit(ds[i])
        THEN [val |-> 0, err |-> TRUE]
        ELSE [val |-> IF signed /\ Head(s) = "-" THEN 0 - ParseNat(ds, 0)
                      ELSE ParseNat(ds, 0),
              err |-> FALSE]

\* ---- request headers ----------------------------------------------------
UploadCompleteHeaders == {"", "?0", "?1"}
UploadOffsetHeaders == {<<>>, <<"x">>} \cup {FormatInt(n) : n \in 0..MaxLen}

getUploadComplete(h) == h = "?1"

\* the error of Atoi dropped: a bad header read as offset 0
getUploadOffsetIgnoringErr(h) == [offset |-> Atoi(h).val, ok |-> TRUE]

getUploadOffset(h) == LET a == Atoi(h)
                      IN  IF a.err THEN [offset |-> 0, ok |-> FALSE]
                          ELSE [offset |-> a.val, ok |-> TRUE]

\* ---- state --------------------------------------------------------------
\* tmpdir: the directory m.TmpDir, file name -> file content
\* req: per slot, the request in service and the locals of its handler
VARIABLES tmpdir, req

vars == <<tmpdir, req>>

\* file names inside TmpDir
UploadPath(id) == <<id, "">>

\* one marker for every upload: the identifier is left out of the name
IncompletePathOfU1(id) == <<"u1", IncompleteExt>>

IncompletePath(id) == <<id, IncompleteExt>>

Exists(name) == name \in DOMAIN tmpdir

NoHeaders == [UploadComplete |-> "", UploadOffset |-> <<>>]

\* a slot without a handler; also the locals a handler starts with
Idle == [pc |-> "idle", method |-> "", id |-> "",
         hComplete |-> "", hOffset |-> <<>>, body |-> <<>>, pos |-> 0,
         complete_server |-> FALSE,
         offset_server |-> 0, n |-> 0,
         status |-> 0, header |-> NoHeaders, err |-> ""]

Init == /\ tmpdir = <<>>
        /\ req = [r \in Slots |-> Idle]

\* ---- os / io ------------------------------------------------------------
\* the directory after creating name empty, or truncating it (os.WriteFile nil)
WriteFile(dir, name) ==
    [f \in DOMAIN dir \cup {name} |-> IF f = name THEN <<>> ELSE dir[f]]

\* os.OpenFile(O_WRONLY|O_CREATE): an existing file is opened as it is
OpenFileCreate(dir, name) ==
    IF name \in DOMAIN dir THEN dir ELSE WriteFile(dir, name)

\* os.Remove of an existing file
Remove(dir, name) == [f \in DOMAIN dir \ {name} |-> dir[f]]

\* file.Seek(0, io.SeekEnd): the size of the file
SeekEnd(dir, name) == Len(dir[name])

\* the write truncates: what lay behind the written byte is cut off
WriteAtTruncating(f, pos, b) == SubSeq(f, 1, pos) \o <<b>>

\* one byte written through a handle opened without O_APPEND: it lands at
\* the handle's own position, replacing what is there or extending the file
WriteAt(f, pos, b) ==
    IF pos < Len(f) THEN [f EXCEPT ![pos + 1] = b]
    ELSE f \o [i \in 1..(pos - Len(f)) |-> "0"] \o <<b>>

\* setUploadHeaders
setUploadHeaders(isComplete, offset) ==
    [UploadComplete |-> IF isComplete THEN "?1" ELSE "?0",
     UploadOffset |-> FormatInt(offset)]

\* opened with O_TRUNC: an existing file is emptied
OpenFileWithTrunc(dir, name) ==
    IF name \in DOMAIN dir THEN [dir EXCEPT ![name] = <<>>] ELSE dir

\* opened with O_CREATE: a missing file comes into existence
OpenFileWithCreate(dir, name) == OpenFileCreate(dir, name)

\* os.OpenFile(O_WRONLY) of an existing or missing file: nothing is created
OpenFile(dir, name) == dir

\* loadUpload run without interruption on directory dir: what a Query
\* reports of id
loadUpload(dir, id) ==
    IF UploadPath(id) \notin DOMAIN dir
    THEN [exists |-> FALSE, isComplete |-> FALSE, offset |-> 0]
    ELSE [exists |-> TRUE,
          isComplete |-> IncompletePath(id) \notin DOMAIN dir,
          offset |-> SeekEnd(dir, UploadPath(id))]

Free(r) == req[r].pc \in {"idle", "done"}

\* a handler returns nil: what stays of it is the response (status and
\* upload headers); the deferred file.Close drops the handle, the locals go
Respond(r, status, header) ==
    req' = [req EXCEPT ![r] = [Idle EXCEPT !.pc = "done", !.method = req[r].method,
                                           !.id = req[r].id, !.status = status,
                                           !.header = header]]

\* a handler returns the error of the call named err: ServeHTTP logs it and
\* the server answers 500, no upload headers
Fail(r, err) ==
    req' = [req EXCEPT ![r] = [Idle EXCEPT !.pc = "done", !.method = req[r].method,
                                           !.id = req[r].id, !.err = err,
                                           !.status = StatusInternalServerError]]

\* ---- UploadCreationHandler (POST) ---------------------------------------
\* uuid.NewString: an identifier no file of the directory carries yet
NewString == {id \in Ids : ~Exists(UploadPath(id)) /\ ~Exists(IncompletePath(id))}

\* a POST with Upload-Complete header hc arrives:
\* os.OpenFile(TmpDir/uploadId, O_WRONLY|O_CREATE)
CreateOpen(r, id, hc) ==
    /\ Free(r)
    /\ tmpdir' = OpenFileCreate(tmpdir, UploadPath(id))
    /\ req' = [req EXCEPT ![r] = [Idle EXCEPT !.pc = "marker", !.method = "POST",
                                              !.id = id, !.hComplete = hc]]

\* os.WriteFile(TmpDir/uploadId.incomplete, nil); io.Copy is next, body is
\* what the client sends as r.Body
CreateMarker(r, body) ==
    /\ req[r].pc = "marker"
    /\ Len(body) <= MaxLen
    /\ tmpdir' = WriteFile(tmpdir, IncompletePath(req[r].id))
    /\ req' = [req EXCEPT ![r].pc = "copy", ![r].body = body]

\* os.WriteFile fails: the handler returns the error
CreateMarkerFail(r) ==
    /\ req[r].pc = "marker"
    /\ Fail(r, "WriteFile")
    /\ UNCHANGED tmpdir

\* io.Copy(file, r.Body), one byte of it (Create and Append alike)
CopyWrite(r) ==
    /\ req[r].pc = "copy"
    /\ req[r].body /= <<>>
    /\ tmpdir' = [tmpdir EXCEPT ![UploadPath(req[r].id)] =
                      WriteAt(@, req[r].pos, Head(req[r].body))]
    /\ req' = [req EXCEPT ![r].body = Tail(@), ![r].pos = @ + 1, ![r].n = @ + 1]

\* the failed copy rolled back: the bytes it wrote are cut off again
CopyFailRollback(r) ==
    /\ req[r].pc = "copy"
    /\ Fail(r, "Copy")
    /\ tmpdir' = [tmpdir EXCEPT ![UploadPath(req[r].id)] =
                      SubSeq(@, 1, Len(@) - req[r].n)]

\* io.Copy returns an error (the body cannot be read further, the request is
\* cancelled): the handler returns it, what was written stays
CopyFail(r) ==
    /\ req[r].pc = "copy"
    /\ Fail(r, "Copy")
    /\ UNCHANGED tmpdir

\* file.Seek(0, io.SeekStart) in place of io.SeekEnd
CreateSeekStart(r) ==
    /\ req[r].pc = "copy"
    /\ req[r].method = "POST"
    /\ req[r].body = <<>>
    /\ req' = [req EXCEPT ![r].pc = "finish", ![r].offset_server = 0]
    /\ UNCHANGED tmpdir

\* file.Seek(0, io.SeekEnd) after the copy
CreateSeek(r) ==
    /\ req[r].pc = "copy"
    /\ req[r].method = "POST"
    /\ req[r].body = <<>>
    /\ req' = [req EXCEPT ![r].pc = "finish",
                          ![r].offset_server = SeekEnd(tmpdir, UploadPath(req[r].id))]
    /\ UNCHANGED tmpdir

\* isComplete := getUploadComplete(r), os.Remove of the marker,
\* setUploadHeaders; no WriteHeader call, so the status is net/http's 200
CreateFinish(r) ==
    LET id == req[r].id
        isComplete == getUploadComplete(req[r].hComplete)
    IN  /\ req[r].pc = "finish"
        /\ IF isComplete /\ ~Exists(IncompletePath(id))
           THEN Fail(r, "Remove") /\ UNCHANGED tmpdir
           ELSE /\ tmpdir' = IF isComplete THEN Remove(tmpdir, IncompletePath(id))
                             ELSE tmpdir
                /\ Respond(r, StatusOK, setUploadHeaders(isComplete, req[r].offset_server))

\* ---- loadUpload ---------------------------------------------------------
\* first half without the Seek: offset 0, the handle at the start of the file
LoadOpenNoSeek(r, rec) ==
    /\ tmpdir' = OpenFile(tmpdir, UploadPath(rec.id))
    /\ IF ~Exists(UploadPath(rec.id))
       THEN req' = [req EXCEPT ![r] = [Idle EXCEPT !.pc = "done", !.method = rec.method,
                                                   !.id = rec.id,
                                                   !.status = StatusNotFound]]
       ELSE req' = [req EXCEPT ![r] = [rec EXCEPT !.pc = "stat"]]

\* first half, os.OpenFile(O_WRONLY) and file.Seek(0, io.SeekEnd), for a
\* handler with locals rec: not found, or the handle at the end of the file
LoadOpen(r, rec) ==
    /\ tmpdir' = OpenFile(tmpdir, UploadPath(rec.id))
    /\ IF ~Exists(UploadPath(rec.id))
       THEN req' = [req EXCEPT ![r] = [Idle EXCEPT !.pc = "done", !.method = rec.method,
                                                   !.id = rec.id,
                                                   !.status = StatusNotFound]]
       ELSE req' = [req EXCEPT ![r] =
                       [rec EXCEPT !.pc = "stat",
                                   !.offset_server = SeekEnd(tmpdir, UploadPath(rec.id)),
                                   !.pos = SeekEnd(tmpdir, UploadPath(rec.id))]]

\* second half, os.Stat of the marker: isComplete
LoadStat(id) == ~Exists(IncompletePath(id))

\* ---- OffsetRetrievingHandler (HEAD) -------------------------------------
QueryOpen(r, id) ==
    /\ Free(r)
    /\ LoadOpen(r, [Idle EXCEPT !.method = "HEAD", !.id = id])

QueryStat(r) ==
    /\ req[r].pc = "stat"
    /\ req[r].method = "HEAD"
    /\ Respond(r, StatusNoContent,
               setUploadHeaders(LoadStat(req[r].id), req[r].offset_server))
    /\ UNCHANGED tmpdir

\* ---- UploadAppendingHandler (PATCH) -------------------------------------
\* complete_client := !getUploadComplete(r)
CompleteClient(hc) == ~getUploadComplete(hc)

\* the completeness check left out
AppendOutcomeNoCompleteCheck(ho, offset_server, complete_server) ==
    LET oc == getUploadOffset(ho)
    IN  IF ~oc.ok THEN StatusBadRequest
        ELSE IF offset_server /= oc.offset THEN StatusConflict
        ELSE StatusCreated

\* the completeness check ahead of the offset check
AppendOutcomeCompleteFirst(ho, offset_server, complete_server) ==
    LET oc == getUploadOffset(ho)
    IN  IF ~oc.ok THEN StatusBadRequest
        ELSE IF complete_server THEN StatusOK
        ELSE IF offset_server /= oc.offset THEN StatusConflict
        ELSE StatusCreated

\* the checks between loadUpload and io.Copy, in the order of the code:
\* the status written, StatusCreated standing for "go on to io.Copy"
AppendOutcome(ho, offset_server, complete_server) ==
    LET oc == getUploadOffset(ho)
    IN  IF ~oc.ok THEN StatusBadRequest
        ELSE IF offset_server /= oc.offset THEN StatusConflict
        ELSE IF complete_server THEN StatusOK
        ELSE StatusCreated

\* a PATCH with headers Upload-Complete hc and Upload-Offset ho arrives
AppendOpen(r, id, hc, ho) ==
    /\ Free(r)
    /\ LoadOpen(r, [Idle EXCEPT !.method = "PATCH", !.id = id,
                                !.hComplete = hc, !.hOffset = ho])

\* the rest of loadUpload, then the header and state checks; io.Copy is
\* next, body is what the client sends as r.Body
AppendStat(r, body) ==
    LET complete_server == LoadStat(req[r].id)
        offset_server == req[r].offset_server
        outcome == AppendOutcome(req[r].hOffset, offset_server, complete_server)
    IN  /\ req[r].pc = "stat"
        /\ req[r].method = "PATCH"
        /\ CASE outcome = StatusBadRequest ->
                    Respond(r, StatusBadRequest, NoHeaders)
             [] outcome \in {StatusConflict, StatusOK} ->
                    Respond(r, outcome, setUploadHeaders(complete_server, offset_server))
             [] OTHER ->
                    /\ offset_server + Len(body) <= MaxLen
                    /\ req' = [req EXCEPT ![r].pc = "copy", ![r].body = body,
                                          ![r].complete_server = complete_server]
        /\ UNCHANGED tmpdir

\* an Append without completion writes the marker anew
AppendFinishRewritingMarker(r) ==
    LET id == req[r].id
        complete_client == CompleteClient(req[r].hComplete)
        offset_server == req[r].offset_server + req[r].n
        complete_server == IF complete_client THEN TRUE
                           ELSE req[r].complete_server
    IN  /\ req[r].pc = "copy"
        /\ req[r].method = "PATCH"
        /\ req[r].body = <<>>
        /\ IF complete_client /\ ~Exists(IncompletePath(id))
           THEN Fail(r, "Remove") /\ UNCHANGED tmpdir
           ELSE /\ tmpdir' = IF complete_client
                             THEN Remove(tmpdir, IncompletePath(id))
                             ELSE WriteFile(tmpdir, IncompletePath(id))
                /\ Respond(r, StatusCreated,
                           setUploadHeaders(complete_server, offset_server))

\* after io.Copy: offset_server += n, the marker removal, the 201 response
AppendFinish(r) ==
    LET id == req[r].id
        complete_client == CompleteClient(req[r].hComplete)
        offset_server == req[r].offset_server + req[r].n
        complete_server == IF complete_client THEN TRUE
                           ELSE req[r].complete_server
    IN  /\ req[r].pc = "copy"
        /\ req[r].method = "PATCH"
        /\ req[r].body = <<>>
        /\ IF complete_client /\ ~Exists(IncompletePath(id))
           THEN Fail(r, "Remove") /\ UNCHANGED tmpdir
           ELSE /\ tmpdir' = IF complete_client
                             THEN Remove(tmpdir, IncompletePath(id))
                             ELSE tmpdir
                /\ Respond(r, StatusCreated,
                           setUploadHeaders(complete_server, offset_server))

\* ---- specifications -----------------------------------------------------
\* a request for one of ids arrives at slot r and its handler starts
Arrive(r, ids) ==
    \/ \E id \in NewString \cap ids, hc \in UploadCompleteHeaders : CreateOpen(r, id, hc)
    \/ \E id \in ids : QueryOpen(r, id)
    \/ \E id \in ids, hc \in UploadCompleteHeaders, ho \in UploadOffsetHeaders :
           AppendOpen(r, id, hc, ho)

\* the handler in slot r takes its next step, a body being one of bodies
Step(r, bodies) ==
    \/ \E body \in bodies : CreateMarker(r, body)
    \/ CreateMarkerFail(r)
    \/ CopyWrite(r)
    \/ CopyFail(r)
    \/ CreateSeek(r)
    \/ CreateFinish(r)
    \/ QueryStat(r)
    \/ \E body \in bodies : AppendStat(r, body)
    \/ AppendFinish(r)

\* requests served one after the other: one handler, run to its return
NextSeq == Arrive(1, Ids) \/ Step(1, Bodies)

SeqSpec == Init /\ [][NextSeq]_vars

\* requests served side by side, their file-system calls interleaved; the
\* handler in slot r sends its own byte
SlotBodies(r) == {[i \in 1..k |-> IF r = 1 THEN "a" ELSE "b"] : k \in 0..MaxBody}

ConcIds == {"u1"}

Next == \E r \in Slots : Arrive(r, ConcIds) \/ Step(r, SlotBodies(r))

Spec == Init /\ [][Next]_vars

\* uuid.NewString repeats an identifier: a request arrives at slot r, a POST
\* being given any of ids, taken or not
ArriveRepeating(r, ids) ==
    \/ \E id \in ids, hc \in UploadCompleteHeaders : CreateOpen(r, id, hc)
    \/ \E id \in ids : QueryOpen(r, id)
    \/ \E id \in ids, hc \in UploadCompleteHeaders, ho \in UploadOffsetHeaders :
           AppendOpen(r, id, hc, ho)

\* requests served one after the other, identifiers not being unique
NextRepeat == ArriveRepeating(1, Ids) \/ Step(1, Bodies)

RepeatSpec == Init /\ [][NextRepeat]_vars

\* ---- properties ---------------------------------------------------------
TypeOK ==
    /\ DOMAIN tmpdir \subseteq {UploadPath(id) : id \in Ids} \cup {IncompletePath(id) : id \in Ids}
    /\ \A f \in DOMAIN tmpdir : Len(tmpdir[f]) <= MaxLen
    /\ \A r \in Slots : req[r].pc \in {"idle", "marker", "copy", "finish", "stat", "done"}

\* the step is AppendStat of slot r, whatever body follows
AppendStatStep(r) ==
    /\ req[r].pc = "stat" /\ req[r].method = "PATCH"
    /\ \E body \in Bodies : AppendStat(r, body)

\* the step is the arrival at slot r of a PATCH for id with Upload-Offset ho
AppendOpenStep(r, id, ho) ==
    /\ Free(r) /\ req'[r].method = "PATCH" /\ req'[r].id = id
    /\ req'[r].pc = "stat" => req'[r].hOffset = ho
    /\ \E hc \in UploadCompleteHeaders : AppendOpen(r, id, hc, ho)

\* C1 (offset durability): served one after the other, an Append that
\* returns 201 and carried no completion signal leaves the upload with the
\* offset it was loaded at plus the length of its body, and incomplete: so
\* after a Create and any number of such Appends a Query reports the
\* cumulative length L and complete = false.
C1_OffsetDurability ==
    [][\A r \in Slots :
          (AppendFinish(r) /\ req'[r].status = StatusCreated
              /\ ~getUploadComplete(req[r].hComplete))
          => LET q == loadUpload(tmpdir', req[r].id)
             IN  /\ q.exists
                 /\ q.offset = req[r].offset_server + req[r].n
                 /\ ~q.isComplete]_vars

\* C2 (completion on Append): an Append that returns 201 and carried
\* Upload-Complete: ?1 advanced the offset by the appended length, reports
\* complete in its response and removed the marker, so that a Query reports
\* complete = true.
C2_CompletionOnAppend ==
    [][\A r \in Slots :
          (AppendFinish(r) /\ req'[r].status = StatusCreated
              /\ getUploadComplete(req[r].hComplete))
          => LET q == loadUpload(tmpdir', req[r].id)
             IN  /\ req'[r].header =
                        setUploadHeaders(TRUE, req[r].offset_server + req[r].n)
                 /\ IncompletePath(req[r].id) \notin DOMAIN tmpdir'
                 /\ q.offset = req[r].offset_server + req[r].n
                 /\ q.isComplete]_vars

\* C3 as stated (completion immutability, outcome): every Append on a
\* complete upload with a parseable Upload-Offset returns AlreadyComplete
\* (200), whatever the client offset.
C3_AlwaysAlreadyComplete ==
    [][\A r \in Slots :
          (AppendStatStep(r) /\ loadUpload(tmpdir, req[r].id).isComplete
              /\ ~Atoi(req[r].hOffset).err)
          => req'[r].status = StatusOK]_vars

\* C3 amended: an Append on a complete upload with a parseable Upload-Offset
\* returns AlreadyComplete (200) when the client offset equals the server
\* offset and OffsetConflict (409) when it does not; either way it reports
\* the server's offset with complete = true and writes nothing.
C3_CompleteAppendOutcome ==
    [][\A r \in Slots :
          (AppendStatStep(r) /\ loadUpload(tmpdir, req[r].id).isComplete
              /\ ~Atoi(req[r].hOffset).err)
          => LET q == loadUpload(tmpdir, req[r].id)
             IN  /\ req'[r].pc = "done"
                 /\ req'[r].status = IF Atoi(req[r].hOffset).val = q.offset
                                     THEN StatusOK ELSE StatusConflict
                 /\ req'[r].header = setUploadHeaders(TRUE, q.offset)
                 /\ tmpdir' = tmpdir]_vars

C3_Witness ==
    \E r \in Slots : /\ req[r].pc = "done" /\ req[r].method = "PATCH"
                     /\ req[r].status = StatusOK
                     /\ req[r].header.UploadComplete = "?1"

\* C4 (offset-conflict rejection): an Append on an existing upload whose
\* client offset differs from the server offset writes nothing, leaves the
\* marker as it is and returns 409 with the server's offset and completion
\* state; nothing changed between the arrival of the request and that check.
C4_OffsetConflict ==
    [][\A r \in Slots :
          /\ \A id \in Ids, ho \in UploadOffsetHeaders :
                 AppendOpenStep(r, id, ho) => tmpdir' = tmpdir
          /\ (AppendStatStep(r) /\ ~Atoi(req[r].hOffset).err
                 /\ Atoi(req[r].hOffset).val /= loadUpload(tmpdir, req[r].id).offset)
             => LET q == loadUpload(tmpdir, req[r].id)
                IN  /\ tmpdir' = tmpdir
                    /\ req'[r].pc = "done"
                    /\ req'[r].status = StatusConflict
                    /\ req'[r].header = setUploadHeaders(q.isComplete, q.offset)]_vars

C4_Witness ==
    \E r \in Slots : /\ req[r].pc = "done" /\ req[r].method = "PATCH"
                     /\ req[r].status = StatusConflict
                     /\ req[r].header.UploadComplete = "?0"
                     /\ Atoi(req[r].header.UploadOffset).val > 0

\* C5 (not-found isolation): a Query or an Append for an id without byte
\* storage returns 404 whatever its headers are, and creates no file.
C5_NotFound ==
    [][\A r \in Slots, id \in Ids :
          (/\ ~Exists(UploadPath(id))
           /\ \/ QueryOpen(r, id)
              \/ \E ho \in UploadOffsetHeaders : AppendOpenStep(r, id, ho))
          => /\ req'[r].pc = "done"
             /\ req'[r].status = StatusNotFound
             /\ tmpdir' = tmpdir]_vars

C5_Witness ==
    \E r \in Slots : /\ req[r].pc = "done" /\ req[r].method = "PATCH"
                     /\ req[r].status = StatusNotFound
                     /\ ~Exists(UploadPath(req[r].id))
                     /\ ~Exists(IncompletePath(req[r].id))

\* C6 (Create result): served alone, a Create whose body of n bytes was
\* copied and whose completion signal is c returns offset n and complete c,
\* and a Query of the id then reports exists, offset n, complete c.
C6_CreateResult ==
    [][\A r \in Slots :
          /\ CreateFinish(r)
             => LET n == req[r].n
                    c == getUploadComplete(req[r].hComplete)
                IN  /\ req'[r].status = StatusOK
                    /\ req'[r].header = setUploadHeaders(c, n)
                    /\ loadUpload(tmpdir', req[r].id) =
                           [exists |-> TRUE, isComplete |-> c, offset |-> n]
          /\ QueryStat(r)
             => LET q == loadUpload(tmpdir, req[r].id)
                IN  /\ req'[r].status = StatusNoContent
                    /\ req'[r].header = setUploadHeaders(q.isComplete, q.offset)]_vars

C6_Witness ==
    \E r \in Slots : /\ req[r].pc = "done" /\ req[r].method = "POST"
                     /\ req[r].status = StatusOK
                     /\ req[r].header = setUploadHeaders(TRUE, MaxBody)

\* C7 as stated (validation before storage): an Append whose Upload-Offset
\* is missing or unparseable is answered 400 before the store is touched,
\* whether or not the id exists.
C7_ValidationBeforeStorage ==
    [][\A r \in Slots, id \in Ids, ho \in UploadOffsetHeaders :
          (AppendOpenStep(r, id, ho) /\ Atoi(ho).err)
          => req'[r].pc = "done" /\ req'[r].status = StatusBadRequest]_vars

\* C7 amended: the Upload-Offset header is validated after loadUpload: an
\* Append whose Upload-Offset is missing or unparseable is answered 404 when
\* the id has no byte storage, and otherwise, once the upload is loaded, 400
\* without upload headers and with nothing written.
C7_ValidationAfterLoad ==
    [][\A r \in Slots :
          /\ \A id \in Ids, ho \in UploadOffsetHeaders :
                 (AppendOpenStep(r, id, ho) /\ Atoi(ho).err)
                 => IF Exists(UploadPath(id))
                    THEN req'[r].pc = "stat" /\ req'[r].status = 0
                    ELSE req'[r].pc = "done" /\ req'[r].status = StatusNotFound
          /\ (AppendStatStep(r) /\ Atoi(req[r].hOffset).err)
             => /\ req'[r].pc = "done"
                /\ req'[r].status = StatusBadRequest
                /\ req'[r].header = NoHeaders
                /\ tmpdir' = tmpdir]_vars

C7_Witness ==
    \E r \in Slots : /\ req[r].pc = "done" /\ req[r].method = "PATCH"
                     /\ req[r].status = StatusBadRequest
                     /\ Exists(UploadPath(req[r].id))

\* C8 (Query is a pure read): no step of a Query, for an existing or a
\* missing id, changes any file of the directory or creates one.
C8_QueryPureRead ==
    [][\A r \in Slots :
          ((\E id \in Ids : QueryOpen(r, id)) \/ QueryStat(r))
          => tmpdir' = tmpdir]_vars

C8_Witness ==
    /\ \E r \in Slots : /\ req[r].pc = "done" /\ req[r].method = "HEAD"
                        /\ req[r].status = StatusNoContent
                        /\ req[r].header.UploadComplete = "?0"
                        /\ Exists(IncompletePath(req[r].id))
    /\ \E r \in Slots : /\ req[r].pc = "done" /\ req[r].method = "HEAD"
                        /\ req[r].status = StatusNotFound

\* C9 (resumable after a failed stream): when the copy of a Create or an
\* Append fails after k bytes, the handler returns an error, nothing is
\* rolled back, and a Query then reports the offset before the operation
\* plus k and complete = false, whatever the completion signal was.
C9_ResumableAfterFailedStream ==
    [][\A r \in Slots :
          CopyFail(r)
          => LET before == IF req[r].method = "POST" THEN 0 ELSE req[r].offset_server
             IN  /\ req'[r].pc = "done"
                 /\ req'[r].status = StatusInternalServerError
                 /\ tmpdir' = tmpdir
                 /\ loadUpload(tmpdir', req[r].id) =
                        [exists |-> TRUE, isComplete |-> FALSE,
                         offset |-> before + req[r].n]]_vars

C9_Witness ==
    \E r \in Slots : /\ req[r].pc = "done" /\ req[r].err = "Copy"
                     /\ req[r].method = "PATCH"
                     /\ Len(tmpdir[UploadPath(req[r].id)]) = MaxLen
                     /\ Exists(IncompletePath(req[r].id))

\* C10 (Append outcome order): NotFound, then OffsetConflict, then
\* AlreadyComplete, then Appended: a parseable Append for a missing id gets
\* 404; for an existing upload 409 on a mismatching offset, complete or not,
\* 200 on a matching offset when complete, and only otherwise it copies, and
\* 201 comes from nowhere else.
C10_AppendOutcomeOrder ==
    [][\A r \in Slots :
          /\ \A id \in Ids, ho \in UploadOffsetHeaders :
                 (AppendOpenStep(r, id, ho) /\ ~Atoi(ho).err /\ ~Exists(UploadPath(id)))
                 => req'[r].status = StatusNotFound
          /\ (AppendStatStep(r) /\ ~Atoi(req[r].hOffset).err)
             => LET q == loadUpload(tmpdir, req[r].id)
                IN  IF Atoi(req[r].hOffset).val /= q.offset
                    THEN req'[r].status = StatusConflict
                    ELSE IF q.isComplete
                    THEN req'[r].status = StatusOK
                    ELSE req'[r].pc = "copy" /\ req'[r].status = 0
          /\ (req'[r].status = StatusCreated /\ req'[r] /= req[r])
             => /\ req[r].pc = "copy" /\ req[r].method = "PATCH"
                /\ ~req[r].complete_server
                /\ Atoi(req[r].hOffset).val = req[r].offset_server]_vars

C10_Witness ==
    \E r \in Slots : /\ req[r].pc = "done" /\ req[r].method = "PATCH"
                     /\ req[r].status = StatusConflict
                     /\ req[r].header.UploadComplete = "?1"

\* the upload id is complete as loadUpload sees it: bytes without a marker
Complete(id) == Exists(UploadPath(id)) /\ ~Exists(IncompletePath(id))

\* C11 (frozen once complete): in every interleaving, once the marker of an
\* id is absent no step writes to the byte storage of that id again, so its
\* bytes and its offset stay as they are.
C11_FrozenOnceComplete ==
    [][\A id \in Ids :
          Complete(id)
          => /\ UploadPath(id) \in DOMAIN tmpdir'
             /\ tmpdir'[UploadPath(id)] = tmpdir[UploadPath(id)]]_vars

\* C12 (offset monotonicity): in every interleaving the byte storage of an
\* id, once there, stays and never gets shorter, and the offset a Query
\* reports is a length the storage had since the Query arrived, so it is at
\* most the present length: the offsets of successive Queries never decrease.
C12_OffsetMonotone ==
    [][/\ \A id \in Ids :
             Exists(UploadPath(id))
             => /\ UploadPath(id) \in DOMAIN tmpdir'
                /\ Len(tmpdir'[UploadPath(id)]) >= Len(tmpdir[UploadPath(id)])
       /\ \A r \in Slots :
             (req'[r].method = "HEAD" /\ req'[r].pc \in {"stat", "done"}
                 /\ req'[r].status /= StatusNotFound)
             => IF req'[r].pc = "stat"
                THEN req'[r].offset_server <= Len(tmpdir'[UploadPath(req'[r].id)])
                ELSE Atoi(req'[r].header.UploadOffset).val
                         <= Len(tmpdir'[UploadPath(req'[r].id)])]_vars

\* two answered Queries of one id, the file having grown in between
C12_Witness ==
    /\ \A r \in Slots : /\ req[r].pc = "done" /\ req[r].method = "HEAD"
                        /\ req[r].status = StatusNoContent
                        /\ req[r].id = "u1"
    /\ req[1].header.UploadOffset = FormatInt(1)
    /\ req[2].header.UploadOffset = FormatInt(MaxLen)

\* the Create of id has returned: its byte storage is there and no
\* UploadCreationHandler is at work on it (an id is handed out once)
CreateReturned(id) ==
    /\ Exists(UploadPath(id))
    /\ \A r \in Slots :
           ~(req[r].method = "POST" /\ req[r].id = id /\ req[r].pc /= "done")

\* C13 (completion is irreversible): for an upload whose Create has
\* returned, once the marker is absent, so that a Query reports complete,
\* no step of any Query or Append, however interleaved, brings the marker
\* back: every later Query reports complete as well.
C13_CompletionIrreversible ==
    [][\A id \in Ids :
          (CreateReturned(id) /\ ~Exists(IncompletePath(id)))
          => /\ IncompletePath(id) \notin DOMAIN tmpdir'
             /\ loadUpload(tmpdir', id).isComplete
             /\ \A r \in Slots :
                    (QueryStat(r) /\ req[r].id = id)
                    => req'[r].header.UploadComplete = "?1"]_vars

\* a Query has reported complete while an Append that loaded the upload as
\* incomplete is still at work on it
C13_Witness ==
    \E r, s \in Slots :
        /\ req[r].pc = "done" /\ req[r].method = "HEAD"
        /\ req[r].header.UploadComplete = "?1"
        /\ CreateReturned(req[r].id)
        /\ req[s].pc = "copy" /\ req[s].method = "PATCH" /\ req[s].id = req[r].id

\* C14 (allocation check on Create): when the identifier Create is given
\* already has byte storage, the allocation fails: the handler returns an
\* error and the existing storage is not opened or touched.
C14_AllocationCheck ==
    [][\A r \in Slots, id \in Ids, hc \in UploadCompleteHeaders :
          (Exists(UploadPath(id)) /\ Free(r) /\ req'[r].method = "POST"
              /\ CreateOpen(r, id, hc))
          => /\ req'[r].pc = "done"
             /\ req'[r].status = StatusInternalServerError
             /\ tmpdir' = tmpdir]_vars

\* id is half created: its byte storage is allocated and its marker is not,
\* the Create standing between the two steps or having failed at the second
HalfCreated(id) ==
    /\ Exists(UploadPath(id))
    /\ \E s \in Slots :
           /\ req[s].method = "POST" /\ req[s].id = id
           /\ req[s].pc = "marker" \/ req[s].err = "WriteFile"

\* C15 (half-created upload): a Query of an id whose byte storage is
\* allocated and whose marker allocation has not happened does not report
\* the upload as existing and complete.
C15_HalfCreatedNotComplete ==
    [][\A r \in Slots :
          (QueryStat(r) /\ HalfCreated(req[r].id))
          => ~(req'[r].status = StatusNoContent
                  /\ req'[r].header.UploadComplete = "?1")]_vars

\* two Appends of id that loaded it at the same offset, both past the checks
\* before either wrote, have each streamed their whole body
BothStreamed(id) ==
    /\ \A r \in Slots : /\ req[r].method = "PATCH" /\ req[r].id = id
                        /\ req[r].pc = "copy" /\ req[r].body = <<>>
    /\ req[1].offset_server = req[2].offset_server

\* C16 (concurrent appends sum): when two Appends of an incomplete id load
\* it at the same offset X and both stream their bodies of n1 and n2 bytes
\* to the end, the persisted offset is X + n1 + n2.
C16_ConcurrentAppendsSum ==
    \A id \in Ids :
        BothStreamed(id)
        => Len(tmpdir[UploadPath(id)]) = req[1].offset_server + req[1].n + req[2].n

\* C17 (MarkComplete at most once): the marker of an upload is removed at
\* most once, so no request fails because the marker it sets out to remove
\* is already absent.
C17_MarkCompleteOnce ==
    \A r \in Slots : req[r].err /= "Remove"

IsPrefix(s, t) ==
    /\ Len(s) <= Len(t)
    /\ \A i \in 1..Len(s) : s[i] = t[i]

\* C18 (append-only bytes): once a byte has been persisted at an index of an
\* upload's content it never changes; the content after any step has the
\* content before it as a prefix.
C18_AppendOnlyBytes ==
    [][\A id \in Ids :
          Exists(UploadPath(id))
          => /\ UploadPath(id) \in DOMAIN tmpdir'
             /\ IsPrefix(tmpdir[UploadPath(id)], tmpdir'[UploadPath(id)])]_vars

\* C20 (reported offset is the persisted offset): the Upload-Offset of an
\* Append answered 201 equals the number of bytes persisted for the upload
\* when the response is produced.
C20_ReportedOffsetIsPersisted ==
    [][\A r \in Slots :
          (/\ req[r].method = "PATCH"
           /\ req'[r].pc = "done"
           /\ req'[r].status = StatusCreated
           /\ AppendFinish(r))
          => Atoi(req'[r].header.UploadOffset).val
               = Len(tmpdir'[UploadPath(req[r].id)])]_vars

\* requests for different uploads served side by side: the handler in slot
\* r works on its own identifier and sends its own byte
SlotIds(r) == {IF r = 1 THEN "u1" ELSE "u2"}

NextIso == \E r \in Slots : Arrive(r, SlotIds(r)) \/ Step(r, SlotBodies(r))

IsoSpec == Init /\ [][NextIso]_vars

\* the identifier the handler in slot r works on in the step taken
StepId(r) == IF Free(r) THEN req'[r].id ELSE req[r].id

\* C19 (isolation between identifiers): a step of a Create, Query or Append
\* on one identifier leaves every file of every other identifier as it was:
\* present or absent as before, with the same bytes.
C19_Isolation ==
    [][\A r \in Slots :
          req'[r] /= req[r]
          => \A name \in DOMAIN tmpdir \cup DOMAIN tmpdir' :
                 name[1] /= StepId(r)
                 => /\ name \in DOMAIN tmpdir
                    /\ name \in DOMAIN tmpdir'
                    /\ tmpdir'[name] = tmpdir[name]]_vars

\* both uploads hold bytes, u2 with its marker, while an Append of u1 has
\* written and a handler of u2 is under way
C19_Witness ==
    /\ req[1].method = "PATCH" /\ req[1].id = "u1"
    /\ req[1].pc = "copy" /\ req[1].n > 0
    /\ req[2].id = "u2" /\ req[2].pc \notin {"idle", "done"}
    /\ Exists(IncompletePath("u2"))
    /\ Len(tmpdir[UploadPath("u2")]) > 0
    /\ tmpdir[UploadPath("u1")] /= tmpdir[UploadPath("u2")]
====
